---- MODULE Spec2Model ----
(***************************************************************************)
(* Currency converter gateway (src/src/app.py): the exchange-rate cache,   *)
(* its one-hour freshness rule, the provider fetch, the Decimal conversion *)
(* arithmetic and the /convert, /cache/clear and /health handlers, run by   *)
(* concurrent request threads.  Left out: the logging, the request         *)
(* metrics, the CACHE_SIZE gauge and /metrics, and the module counters     *)
(* request_count and conversions_count, which are written and never read.  *)
(*                                                                         *)
(* Text (query parameters, the text str() gives for a JSON value, cache    *)
(* keys) is a sequence of one-character strings.  A Decimal is a record:   *)
(*   [kind |-> "num", sign |-> 0 or 1, coef |-> digits, exp |-> e]         *)
(*   [kind |-> "inf", sign |-> 0 or 1], [kind |-> "nan"], [kind |-> "snan"]*)
(* with coef the coefficient's decimal digits, most significant first.     *)
(***************************************************************************)
EXTENDS Integers, Sequences, FiniteSets, TLC

(***************************************************************************)
(* Text helpers                                                            *)
(***************************************************************************)
LowerLetters == <<"a","b","c","d","e","f","g","h","i","j","k","l","m",
                  "n","o","p","q","r","s","t","u","v","w","x","y","z">>

UpperLetters == <<"A","B","C","D","E","F","G","H","I","J","K","L","M",
                  "N","O","P","Q","R","S","T","U","V","W","X","Y","Z">>

DigitChars == <<"0","1","2","3","4","5","6","7","8","9">>

UpperChar(c) ==
    IF \E i \in 1..Len(LowerLetters) : LowerLetters[i] = c
    THEN UpperLetters[CHOOSE i \in 1..Len(LowerLetters) : LowerLetters[i] = c]
    ELSE c

LowerChar(c) ==
    IF \E i \in 1..Len(UpperLetters) : UpperLetters[i] = c
    THEN LowerLetters[CHOOSE i \in 1..Len(UpperLetters) : UpperLetters[i] = c]
    ELSE c

\* str.upper()
Upper(s) == [i \in 1..Len(s) |-> UpperChar(s[i])]

Lower(s) == [i \in 1..Len(s) |-> LowerChar(s[i])]

IsSpace(c) == c \in {" ", "\t", "\n"}

RECURSIVE LStrip(_)
LStrip(s) == IF s # <<>> /\ IsSpace(Head(s)) THEN LStrip(Tail(s)) ELSE s

RECURSIVE RStrip(_)
RStrip(s) ==
    IF s # <<>> /\ IsSpace(s[Len(s)]) THEN RStrip(SubSeq(s, 1, Len(s) - 1)) ELSE s

\* str.strip()
Strip(s) == RStrip(LStrip(s))

IsDigitChar(c) == \E i \in 1..Len(DigitChars) : DigitChars[i] = c

DigitVal(c) == (CHOOSE i \in 1..Len(DigitChars) : DigitChars[i] = c) - 1

AllDigitChars(s) == \A i \in 1..Len(s) : IsDigitChar(s[i])

\* index of the first occurrence of c in s, 0 when there is none
IndexOf(s, c) ==
    IF \E i \in 1..Len(s) : s[i] = c
    THEN CHOOSE i \in 1..Len(s) : s[i] = c /\ \A j \in 1..(i - 1) : s[j] # c
    ELSE 0

(***************************************************************************)
(* Arithmetic on coefficients: sequences of digits 0..9                    *)
(***************************************************************************)
Rev(s) == [i \in 1..Len(s) |-> s[Len(s) + 1 - i]]

Zeros(n) == [i \in 1..n |-> 0]

\* ds without leading zeros; at least one digit stays
StripZeros(ds) ==
    IF \A i \in 1..Len(ds) : ds[i] = 0 THEN <<0>>
    ELSE SubSeq(ds, CHOOSE i \in 1..Len(ds) :
                        ds[i] # 0 /\ \A j \in 1..(i - 1) : ds[j] = 0, Len(ds))

IsZeroDigits(ds) == \A i \in 1..Len(ds) : ds[i] = 0

\* column k of the long multiplication: the sum of aL[i] * bL[k + 1 - i],
\* aL and bL with the least significant digit first
RECURSIVE SumProducts(_, _, _, _)
SumProducts(aL, bL, k, i) ==
    IF i = 0 THEN 0
    ELSE (IF (k + 1 - i) \in 1..Len(bL) THEN aL[i] * bL[k + 1 - i] ELSE 0)
         + SumProducts(aL, bL, k, i - 1)

\* the columns' digits after the carries, least significant first
RECURSIVE CarryLE(_, _, _)
CarryLE(cols, k, carry) ==
    IF k > Len(cols) THEN <<>>
    ELSE <<(cols[k] + carry) % 10>>
         \o CarryLE(cols, k + 1, (cols[k] + carry) \div 10)

\* the exact product of two coefficients
MulDigits(a, b) ==
    LET aL   == Rev(a)
        bL   == Rev(b)
        cols == [k \in 1..(Len(a) + Len(b)) |-> SumProducts(aL, bL, k, Len(aL))]
    IN  StripZeros(Rev(CarryLE(cols, 1, 0)))

\* the coefficient plus one
IncDigits(a) ==
    IF \A i \in 1..Len(a) : a[i] = 9 THEN <<1>> \o Zeros(Len(a))
    ELSE LET j == CHOOSE i \in 1..Len(a) :
                      a[i] # 9 /\ \A m \in (i + 1)..Len(a) : a[m] = 9
         IN  [i \in 1..Len(a) |-> IF i < j THEN a[i]
                                  ELSE IF i = j THEN a[i] + 1 ELSE 0]

RECURSIVE DigitsToInt(_)
DigitsToInt(ds) ==
    IF ds = <<>> THEN 0 ELSE 10 * DigitsToInt(SubSeq(ds, 1, Len(ds) - 1)) + ds[Len(ds)]

\* coefficient ds without its last k digits, rounded in the given mode
RoundDrop(ds, k, mode) ==
    LET padded == IF Len(ds) <= k THEN Zeros(k + 1 - Len(ds)) \o ds ELSE ds
        n      == Len(padded) - k
        keep   == SubSeq(padded, 1, n)
        first  == padded[n + 1]
        rest   == SubSeq(padded, n + 2, Len(padded))
        up     == IF mode = "ROUND_HALF_UP" THEN first >= 5
                  ELSE \/ first > 5
                       \/ first = 5 /\ (~IsZeroDigits(rest) \/ keep[n] % 2 = 1)
    IN  IF k = 0 THEN StripZeros(ds)
        ELSE StripZeros(IF up THEN IncDigits(keep) ELSE keep)

(***************************************************************************)
(* decimal.Decimal under the default context (app.py imports it unchanged) *)
(***************************************************************************)
\* decimal.getcontext().prec, the default: no line of app.py changes it
DecimalPrec == 28

InvalidOperation == [kind |-> "raise", exc |-> "InvalidOperation"]

Raised(v) == v.kind = "raise"

Num(sign, coef, exp) == [kind |-> "num", sign |-> sign, coef |-> coef, exp |-> exp]

NaN == [kind |-> "nan"]

SNaN == [kind |-> "snan"]

Inf(sign) == [kind |-> "inf", sign |-> sign]

CharsToDigits(s) == [i \in 1..Len(s) |-> DigitVal(s[i])]

\* the digits of an exponent part, its sign apart
ExponentDigits(expo) ==
    IF expo # <<>> /\ Head(expo) \in {"+", "-"} THEN Tail(expo) ELSE expo

ExponentOk(expo) ==
    ExponentDigits(expo) # <<>> /\ AllDigitChars(ExponentDigits(expo))

ExponentValue(expo) ==
    IF Head(expo) = "-"
    THEN 0 - DigitsToInt(CharsToDigits(ExponentDigits(expo)))
    ELSE DigitsToInt(CharsToDigits(ExponentDigits(expo)))

\* digits [. digits] | . digits, scaled by the exponent eval
ParseMantissa(sign, intp, fracp, eval) ==
    IF /\ AllDigitChars(intp) /\ AllDigitChars(fracp)
       /\ Len(intp) + Len(fracp) >= 1
    THEN Num(sign, StripZeros(CharsToDigits(intp \o fracp)), eval - Len(fracp))
    ELSE InvalidOperation

\* the mantissa split at its decimal point, dotPos (0: there is none)
ParsePoint(sign, mant, dotPos, eval) ==
    IF dotPos = 0 THEN ParseMantissa(sign, mant, <<>>, eval)
    ELSE ParseMantissa(sign, SubSeq(mant, 1, dotPos - 1),
                       SubSeq(mant, dotPos + 1, Len(mant)), eval)

\* mantissa [e [sign] digits]
ParseExponent(sign, mant, expo) ==
    IF ExponentOk(expo)
    THEN ParsePoint(sign, mant, IndexOf(mant, "."), ExponentValue(expo))
    ELSE InvalidOperation

\* the number split at its exponent marker, ePos (0: there is none)
ParseNumber(sign, body, ePos) ==
    IF ePos = 0 THEN ParsePoint(sign, body, IndexOf(body, "."), 0)
    ELSE ParseExponent(sign, SubSeq(body, 1, ePos - 1),
                       SubSeq(body, ePos + 1, Len(body)))

\* what follows the sign: inf[inity] | [s]nan[digits] | a number
ParseUnsigned(sign, body) ==
    IF body \in {<<"i","n","f">>, <<"i","n","f","i","n","i","t","y">>}
    THEN Inf(sign)
    ELSE IF Len(body) >= 3 /\ SubSeq(body, 1, 3) = <<"n","a","n">>
            /\ AllDigitChars(SubSeq(body, 4, Len(body)))
    THEN NaN
    ELSE IF Len(body) >= 4 /\ SubSeq(body, 1, 4) = <<"s","n","a","n">>
            /\ AllDigitChars(SubSeq(body, 5, Len(body)))
    THEN SNaN
    ELSE ParseNumber(sign, body, IndexOf(body, "e"))

ParseSigned(s) ==
    IF s # <<>> /\ Head(s) \in {"+", "-"}
    THEN ParseUnsigned(IF Head(s) = "-" THEN 1 ELSE 0, Tail(s))
    ELSE ParseUnsigned(0, s)

\* Decimal(text): strip, drop underscores, then the numeric-string grammar
\* (case-insensitive): [sign] (digits [. digits] | . digits) [e [sign] digits]
\* | [sign] inf[inity] | [sign] [s]nan[digits]
ParseDecimal(text) ==
    ParseSigned(Lower(SelectSeq(Strip(text), LAMBDA c : c # "_")))

\* a slip: d < 0 where d <= 0 is meant
DecimalLtZero(d) ==
    CASE d.kind \in {"nan", "snan"} -> InvalidOperation
      [] d.kind = "inf"             -> [kind |-> "bool", val |-> d.sign = 1]
      [] OTHER -> [kind |-> "bool", val |-> ~IsZeroDigits(d.coef) /\ d.sign = 1]

\* d <= 0: an ordering comparison that involves a NaN raises InvalidOperation
DecimalLeZero(d) ==
    CASE d.kind \in {"nan", "snan"} -> InvalidOperation
      [] d.kind = "inf"             -> [kind |-> "bool", val |-> d.sign = 1]
      [] OTHER -> [kind |-> "bool", val |-> IsZeroDigits(d.coef) \/ d.sign = 1]

\* the context's rounding of a result to DecimalPrec digits (ROUND_HALF_EVEN)
Fix(d) ==
    IF Len(d.coef) <= DecimalPrec THEN d
    ELSE LET k == Len(d.coef) - DecimalPrec
             r == RoundDrop(d.coef, k, "ROUND_HALF_EVEN")
         IN  IF Len(r) > DecimalPrec
             THEN Num(d.sign, SubSeq(r, 1, DecimalPrec), d.exp + k + 1)
             ELSE Num(d.sign, r, d.exp + k)

\* a * b
DecimalMul(a, b) ==
    CASE a.kind = "snan" \/ b.kind = "snan" -> InvalidOperation
      [] a.kind = "nan" \/ b.kind = "nan"   -> NaN
      [] a.kind = "inf" /\ b.kind = "inf"   -> Inf((a.sign + b.sign) % 2)
      [] a.kind = "inf" ->
            IF IsZeroDigits(b.coef) THEN InvalidOperation
            ELSE Inf((a.sign + b.sign) % 2)
      [] b.kind = "inf" ->
            IF IsZeroDigits(a.coef) THEN InvalidOperation
            ELSE Inf((a.sign + b.sign) % 2)
      [] OTHER ->
            Fix(Num((a.sign + b.sign) % 2, MulDigits(a.coef, b.coef), a.exp + b.exp))

\* d with exponent e: zeros appended, or digits dropped in the rounding mode
Rescale(d, e, mode) ==
    IF d.exp >= e
    THEN Num(d.sign, StripZeros(d.coef \o Zeros(d.exp - e)), e)
    ELSE Num(d.sign, RoundDrop(d.coef, e - d.exp, mode), e)

\* d.quantize(Decimal('0.01'), rounding=ROUND_HALF_UP): raises when the
\* result would need more than DecimalPrec digits; an exception raised by
\* the multiplication has left the expression before quantize is called
Quantize(d) ==
    CASE d.kind = "raise" -> d
      [] d.kind = "snan" -> InvalidOperation
      [] d.kind = "nan"  -> NaN
      [] d.kind = "inf"  -> InvalidOperation
      [] OTHER ->
            IF IsZeroDigits(d.coef) THEN Num(d.sign, <<0>>, 0 - 2)
            ELSE IF (Len(d.coef) + d.exp - 1) + 2 + 1 > DecimalPrec
            THEN InvalidOperation
            ELSE LET r == Rescale(d, 0 - 2, "ROUND_HALF_UP")
                 IN  IF Len(r.coef) > DecimalPrec THEN InvalidOperation ELSE r

\* line 178
ConvertAmount(amount, rate) == Quantize(DecimalMul(amount, rate))

(***************************************************************************)
(* The provider's answer, as requests.get / raise_for_status /             *)
(* response.json() see it.  A JSON number is held as the text str() gives  *)
(* for the parsed value ("1.5", "0", "-1", "nan"), a JSON string as its    *)
(* text, null as itself.                                                   *)
(***************************************************************************)
JNumber(text) == [type |-> "number", text |-> text]

JString(text) == [type |-> "string", text |-> text]

JNull == [type |-> "null"]

\* str(value), line 86
PyStr(v) == IF v.type = "null" THEN <<"N","o","n","e">> ELSE v.text

NetworkFailure == [net |-> "failed"]

HttpAnswer(status, body) == [net |-> "ok", status |-> status, body |-> body]

RatesBody(to, value) == [type |-> "object", has_rates |-> TRUE,
                         rates |-> [type |-> "object", map |-> (to :> value)]]

NoRate == [kind |-> "none"]

\* lines 82-86: what the try block yields for a provider answer: the rate,
\* or the exception that leaves it
FetchOutcome(answer, to_currency) ==
    IF answer.net = "failed" THEN [kind |-> "raise", exc |-> "RequestException"]
    ELSE IF answer.status >= 400 THEN [kind |-> "raise", exc |-> "RequestException"]
    ELSE IF answer.body.type = "not_json"
         THEN [kind |-> "raise", exc |-> "RequestException"]
    ELSE IF answer.body.type # "object" THEN [kind |-> "raise", exc |-> "TypeError"]
    ELSE IF ~answer.body.has_rates THEN [kind |-> "raise", exc |-> "KeyError"]
    ELSE IF answer.body.rates.type # "object"
         THEN [kind |-> "raise", exc |-> "TypeError"]
    ELSE IF to_currency \notin DOMAIN answer.body.rates.map
         THEN [kind |-> "raise", exc |-> "KeyError"]
    ELSE ParseDecimal(PyStr(answer.body.rates.map[to_currency]))

\* lines 101-106: the exceptions get_exchange_rate turns into None
CaughtByGetExchangeRate(exc) == exc \in {"RequestException", "KeyError", "ValueError"}

(***************************************************************************)
(* The cache                                                               *)
(***************************************************************************)
\* line 75
FreshnessWindow == 3600

\* line 69
CacheKey(from_currency, to_currency) == from_currency \o <<"_">> \o to_currency

\* a slip: the comparison turned round
IsFresh_Inverted(cached_data, current_time) ==
    current_time - cached_data.timestamp > FreshnessWindow

\* a slip: the operands swapped, so that no entry ever expires
IsFresh_NoExpiry(cached_data, current_time) ==
    cached_data.timestamp - current_time < FreshnessWindow

\* line 75
IsFresh(cached_data, current_time) ==
    current_time - cached_data.timestamp < FreshnessWindow

CacheEntry(rate, timestamp) == [rate |-> rate, timestamp |-> timestamp]

\* a slip: an entry that exists is updated in place, rate only
PutRate_InPlace(cache, cache_key, rate, current_time) ==
    [k \in DOMAIN cache \cup {cache_key} |->
        IF k # cache_key THEN cache[k]
        ELSE IF k \in DOMAIN cache THEN CacheEntry(rate, cache[k].timestamp)
        ELSE CacheEntry(rate, current_time)]

\* lines 89-92: exchange_cache[cache_key] = {'rate': rate, 'timestamp': current_time}
PutRate(cache, cache_key, rate, current_time) ==
    [k \in DOMAIN cache \cup {cache_key} |->
        IF k = cache_key THEN CacheEntry(rate, current_time) ELSE cache[k]]

EmptyCache == <<>>

(***************************************************************************)
(* The clients of a run: who sends what, and what the provider answers     *)
(***************************************************************************)
MaxRequests == 3

EUR == <<"E","U","R">>

USD == <<"U","S","D">>

GBP == <<"G","B","P">>

Req(from, to, amount) == [from |-> from, to |-> to, amount |-> amount]

RateAnswer(to, text) == HttpAnswer(200, RatesBody(to, JNumber(text)))

\* the /convert query strings the clients of a run send
Requests(c) ==
    CASE c = "traffic" ->
            { Req(EUR, USD, <<"2">>) }
      [] c = "pairs" ->
            { Req(EUR, USD, <<"2">>), Req(EUR, GBP, <<"2">>) }
      [] c = "faults" ->
            { Req(<<>>, USD, <<"5">>), Req(EUR, <<>>, <<"5">>), Req(EUR, USD, <<>>),
              Req(EUR, USD, <<"a","b","c">>), Req(EUR, USD, <<"-","5">>),
              Req(EUR, USD, <<"0">>), Req(EUR, USD, <<"N","a","N">>),
              Req(EUR, USD, <<"2">>), Req(EUR, USD, <<"1","e","3","0">>),
              Req(EUR, USD, <<"I","n","f","i","n","i","t","y">>) }
      [] c = "amounts" ->
            { Req(EUR, USD, a) : a \in
                { <<"1","0","0">>, <<"0",".","5">>, <<"2",".","6","7","5">>,
                  <<"0",".","0","1","5">>, <<"3","3",".","3","3","3">>,
                  <<"0",".","0","0","4","9","9","9","9","9","9","9","9","9",
                    "9","9","9","9","9","9","9","9","9","9","9","9","9","9",
                    "9","9","9","9","9","9","5">> } }
      [] c = "codes" ->
            { Req(<<"A","_","B">>, <<"C">>, <<"2">>),
              Req(<<"A">>, <<"B","_","C">>, <<"2">>),
              Req(<<"a">>, <<"b","_","c">>, <<"2">>),
              Req(<<"A">>, <<"B">>, <<"2">>) }

\* the answers the provider may give to a request for to_currency
Answers(c, to) ==
    CASE c = "traffic" ->
            { NetworkFailure, RateAnswer(to, <<"1",".","5">>),
              RateAnswer(to, <<"0",".","0","1">>) }
      [] c = "pairs" ->
            { RateAnswer(to, <<"1",".","5">>), RateAnswer(to, <<"0",".","0","1">>) }
      [] c = "faults" ->
            { NetworkFailure,
              HttpAnswer(500, [type |-> "not_json"]),
              HttpAnswer(200, [type |-> "not_json"]),
              HttpAnswer(200, [type |-> "array"]),
              HttpAnswer(200, [type |-> "object", has_rates |-> FALSE]),
              HttpAnswer(200, [type |-> "object", has_rates |-> TRUE,
                               rates |-> [type |-> "null"]]),
              HttpAnswer(200, RatesBody(GBP, JNumber(<<"1",".","5">>))),
              HttpAnswer(200, RatesBody(to, JString(<<"a","b","c">>))),
              HttpAnswer(200, RatesBody(to, JNull)),
              RateAnswer(to, <<"1",".","5">>),
              RateAnswer(to, <<"0">>),
              RateAnswer(to, <<"-","1">>),
              RateAnswer(to, <<"n","a","n">>) }
      [] c = "amounts" ->
            { NetworkFailure } \cup
            { RateAnswer(to, r) : r \in
                { <<"1">>, <<"0",".","0","1">>, <<"1",".","0","0","5">>,
                  <<"0",".","9","2">> } }
      [] c = "codes" ->
            { RateAnswer(to, <<"1",".","5">>), RateAnswer(to, <<"3">>) }

\* the request threads serving /convert at the same time
Threads(c) == IF c \in {"traffic", "pairs"} THEN {"t1", "t2"} ELSE {"t1"}

AllThreads == {"t1", "t2"}

\* the readings of time.time() a run passes through
ClockPoints(c) ==
    IF c = "traffic"
    THEN {0, FreshnessWindow - 1, FreshnessWindow}
    ELSE {0, FreshnessWindow}

(***************************************************************************)
(* State                                                                   *)
(***************************************************************************)
VARIABLES
    exchange_cache,    \* line 28: cache_key -> [rate, timestamp]
    CONVERSION_COUNT,  \* line 21, the conversion counter
    now,               \* time.time()
    thread,            \* the /convert request threads: position and locals
    admin,             \* the thread serving /cache/clear and /health
    clients,           \* which clients this run has
    arrivals,          \* history: requests accepted so far
    origin,            \* history: cache_key -> the call that stored the entry
    cleanSinceClear    \* history: no store since the last clear (or start)

vars == <<exchange_cache, CONVERSION_COUNT, now, thread, admin, clients, arrivals,
          origin, cleanSinceClear>>

NoResult == [status |-> 0, error |-> "", required |-> <<>>, conversion |-> NoRate]

\* a thread between requests; calls, wrote and counted are history: the
\* provider requests, cache stores and counter increments of the current call
Idle ==
    [ pc |-> "idle",
      from_arg |-> <<>>, to_arg |-> <<>>, amount_arg |-> <<>>,
      from_currency |-> <<>>, to_currency |-> <<>>, amount |-> NoRate,
      current_time |-> 0, cached_data |-> NoRate, answer |-> NoRate,
      rate |-> NoRate, result |-> NoResult,
      calls |-> 0, wrote |-> FALSE, counted |-> 0 ]

AdminIdle == [pc |-> "idle", cache_status |-> "", resp |-> NoRate]

\* the state after the module is loaded, the clients of the run fixed
Start(c) ==
    /\ clients = c
    /\ exchange_cache = EmptyCache
    /\ CONVERSION_COUNT = 0
    /\ now = 0
    /\ thread = [h \in AllThreads |-> Idle]
    /\ admin = AdminIdle
    /\ arrivals = 0
    /\ origin = EmptyCache
    /\ cleanSinceClear = TRUE

Init == Start("traffic")

InitPairs == Start("pairs")

InitFaults == Start("faults")

InitAmounts == Start("amounts")

InitCodes == Start("codes")

(***************************************************************************)
(* Responses of /convert                                                   *)
(***************************************************************************)
\* lines 160-164
MissingParams ==
    [status |-> 400, error |-> "Parametres manquants",
     required |-> <<"from", "to", "amount">>, conversion |-> NoRate]

\* line 169
NotPositive ==
    [status |-> 400, error |-> "Le montant doit etre positif",
     required |-> <<>>, conversion |-> NoRate]

\* line 171
InvalidAmount ==
    [status |-> 400, error |-> "Montant invalide",
     required |-> <<>>, conversion |-> NoRate]

\* line 176
RateUnavailable ==
    [status |-> 400, error |-> "Taux de change non disponible",
     required |-> <<>>, conversion |-> NoRate]

\* lines 235-242: an exception no handler caught
InternalError ==
    [status |-> 500, error |-> "Erreur interne du serveur",
     required |-> <<>>, conversion |-> NoRate]

\* lines 187-197
Converted(t, converted_amount) ==
    [status |-> 200, error |-> "", required |-> <<>>,
     conversion |-> [from |-> t.from_currency, to |-> t.to_currency,
                     amount |-> t.amount, converted_amount |-> converted_amount,
                     rate |-> t.rate]]

\* lines 168-171, nonpositive being amount <= 0 or the exception it raises
PositiveAmount(from_currency, to_currency, amount, nonpositive) ==
    IF Raised(nonpositive) THEN [ok |-> FALSE, result |-> InvalidAmount]
    ELSE IF nonpositive.val THEN [ok |-> FALSE, result |-> NotPositive]
    ELSE [ok |-> TRUE, from_currency |-> from_currency,
          to_currency |-> to_currency, amount |-> amount]

\* lines 166-171, amount being Decimal(amount_str) or the exception it raises
ValidAmount(from_currency, to_currency, amount) ==
    IF Raised(amount) THEN [ok |-> FALSE, result |-> InvalidAmount]
    ELSE PositiveAmount(from_currency, to_currency, amount, DecimalLeZero(amount))

\* lines 154-171: the parameters uppercased and validated: a 400 response,
\* or the values the conversion goes on with
Validation(from_arg, to_arg, amount_arg) ==
    IF Upper(from_arg) = <<>> \/ Upper(to_arg) = <<>> \/ amount_arg = <<>>
    THEN [ok |-> FALSE, result |-> MissingParams]
    ELSE ValidAmount(Upper(from_arg), Upper(to_arg), ParseDecimal(amount_arg))

(***************************************************************************)
(* /convert, one step per access to the shared state                       *)
(***************************************************************************)
\* a request arrives: lines 154-171; on success line 174 enters
\* get_exchange_rate, which reads the clock (line 70)
Request(h, req) ==
    /\ thread[h].pc = "idle"
    /\ \E v \in {Validation(req.from, req.to, req.amount)} :
        LET t == [Idle EXCEPT !.from_arg = req.from, !.to_arg = req.to,
                              !.amount_arg = req.amount]
        IN  /\ arrivals < MaxRequests
            /\ arrivals' = arrivals + 1
            /\ thread' = [thread EXCEPT ![h] =
                    IF v.ok
                    THEN [t EXCEPT !.pc = "lookup",
                                   !.from_currency = v.from_currency,
                                   !.to_currency = v.to_currency,
                                   !.amount = v.amount,
                                   !.current_time = now]
                    ELSE [t EXCEPT !.pc = "responded", !.result = v.result]]
            /\ UNCHANGED <<exchange_cache, CONVERSION_COUNT, now, admin, clients,
                           origin, cleanSinceClear>>

\* line 73: cache_key in exchange_cache
Lookup(h) ==
    LET t == thread[h]
    IN  /\ t.pc = "lookup"
        /\ thread' = [thread EXCEPT ![h].pc =
                IF CacheKey(t.from_currency, t.to_currency) \in DOMAIN exchange_cache
                THEN "read" ELSE "fetching"]
        /\ UNCHANGED <<exchange_cache, CONVERSION_COUNT, now, admin, clients,
                       arrivals, origin, cleanSinceClear>>

\* lines 74-77: exchange_cache[cache_key] (a KeyError when the key has gone
\* since line 73: the line is outside the try block), then the freshness test
ReadCached(h) ==
    LET t   == thread[h]
        key == CacheKey(t.from_currency, t.to_currency)
    IN  /\ t.pc = "read"
        /\ thread' = [thread EXCEPT ![h] =
                IF key \notin DOMAIN exchange_cache
                THEN [t EXCEPT !.pc = "responded", !.result = InternalError]
                ELSE IF IsFresh(exchange_cache[key], t.current_time)
                THEN [t EXCEPT !.pc = "converting",
                               !.cached_data = exchange_cache[key],
                               !.rate = exchange_cache[key].rate]
                ELSE [t EXCEPT !.pc = "fetching",
                               !.cached_data = exchange_cache[key]]]
        /\ UNCHANGED <<exchange_cache, CONVERSION_COUNT, now, admin, clients,
                       arrivals, origin, cleanSinceClear>>

\* lines 79-86 and 101-106: one provider request and what becomes of its
\* answer: the rate, or an exception
Fetch(h, answer) ==
    /\ thread[h].pc = "fetching"
    /\ \E outcome \in {FetchOutcome(answer, thread[h].to_currency)} :
        LET t      == thread[h]
            called == [t EXCEPT !.answer = answer, !.calls = t.calls + 1]
        IN  /\ thread' = [thread EXCEPT ![h] =
                    IF Raised(outcome)
                    THEN [called EXCEPT !.pc = "responded",
                              !.result = IF CaughtByGetExchangeRate(outcome.exc)
                                         THEN RateUnavailable ELSE InternalError]
                    ELSE [called EXCEPT !.pc = "populate", !.rate = outcome]]
            /\ UNCHANGED <<exchange_cache, CONVERSION_COUNT, now, admin, clients,
                           arrivals, origin, cleanSinceClear>>

\* lines 89-92, then the return of line 99; origin notes the call that
\* stored: its pair, the rate the provider gave it, its clock reading
Populate(h) ==
    LET t   == thread[h]
        key == CacheKey(t.from_currency, t.to_currency)
    IN  /\ t.pc = "populate"
        /\ exchange_cache' = PutRate(exchange_cache, key, t.rate, t.current_time)
        /\ origin' = [k \in DOMAIN origin \cup {key} |->
                        IF k = key
                        THEN [from |-> t.from_currency, to |-> t.to_currency,
                              rate |-> FetchOutcome(t.answer, t.to_currency),
                              time |-> t.current_time]
                        ELSE origin[k]]
        /\ thread' = [thread EXCEPT ![h].pc = "converting", ![h].wrote = TRUE]
        /\ cleanSinceClear' = FALSE
        /\ UNCHANGED <<CONVERSION_COUNT, now, admin, clients, arrivals>>

\* lines 178-197: the arithmetic (an exception it raises is caught by
\* nothing), the counter, the response
Convert(h) ==
    /\ thread[h].pc = "converting"
    /\ \E c \in {ConvertAmount(thread[h].amount, thread[h].rate)} :
        LET t == thread[h]
        IN  /\ IF Raised(c)
               THEN /\ thread' = [thread EXCEPT ![h].pc = "responded",
                                                ![h].result = InternalError]
                    /\ UNCHANGED CONVERSION_COUNT
               ELSE /\ thread' = [thread EXCEPT ![h].pc = "responded",
                                                ![h].counted = t.counted + 1,
                                                ![h].result = Converted(t, c)]
                    /\ CONVERSION_COUNT' = CONVERSION_COUNT + 1
            /\ UNCHANGED <<exchange_cache, now, admin, clients, arrivals, origin,
                           cleanSinceClear>>

\* the response is sent; the thread is free for the next request
Finish(h) ==
    /\ thread[h].pc = "responded"
    /\ thread' = [thread EXCEPT ![h] = Idle]
    /\ UNCHANGED <<exchange_cache, CONVERSION_COUNT, now, admin, clients,
                   arrivals, origin, cleanSinceClear>>

(***************************************************************************)
(* /cache/clear and /health                                                *)
(***************************************************************************)
\* line 210
ClearCache ==
    /\ admin.pc = "idle"
    /\ arrivals < MaxRequests
    /\ arrivals' = arrivals + 1
    /\ exchange_cache' = EmptyCache
    /\ origin' = EmptyCache
    /\ cleanSinceClear' = TRUE
    /\ admin' = [AdminIdle EXCEPT !.pc = "clear_cleared"]
    /\ UNCHANGED <<CONVERSION_COUNT, now, thread, clients>>

\* lines 213-216: the response says cache_size 0; entries is what the cache
\* holds as the response is built
ClearRespond ==
    /\ admin.pc = "clear_cleared"
    /\ admin' = [admin EXCEPT !.pc = "clear_responded",
                     !.resp = [cache_size |-> 0,
                               entries |-> Cardinality(DOMAIN exchange_cache)]]
    /\ UNCHANGED <<exchange_cache, CONVERSION_COUNT, now, thread, clients,
                   arrivals, origin, cleanSinceClear>>

\* line 128
HealthStatus ==
    /\ admin.pc = "idle"
    /\ arrivals < MaxRequests
    /\ arrivals' = arrivals + 1
    /\ admin' = [AdminIdle EXCEPT !.pc = "health_status",
                     !.cache_status =
                         IF Cardinality(DOMAIN exchange_cache) > 0
                         THEN "healthy" ELSE "empty"]
    /\ UNCHANGED <<exchange_cache, CONVERSION_COUNT, now, thread, clients,
                   origin, cleanSinceClear>>

\* lines 129-138; clean records whether a store came since the last clear
HealthRespond ==
    /\ admin.pc = "health_status"
    /\ admin' = [admin EXCEPT !.pc = "health_responded",
                     !.resp = [size |-> Cardinality(DOMAIN exchange_cache),
                               status |-> admin.cache_status,
                               clean |-> cleanSinceClear]]
    /\ UNCHANGED <<exchange_cache, CONVERSION_COUNT, now, thread, clients,
                   arrivals, origin, cleanSinceClear>>

AdminFinish ==
    /\ admin.pc \in {"clear_responded", "health_responded"}
    /\ admin' = AdminIdle
    /\ UNCHANGED <<exchange_cache, CONVERSION_COUNT, now, thread, clients,
                   arrivals, origin, cleanSinceClear>>

\* time passes
Tick ==
    /\ \E t \in ClockPoints(clients) : t > now /\ now' = t
    /\ UNCHANGED <<exchange_cache, CONVERSION_COUNT, thread, admin, clients,
                   arrivals, origin, cleanSinceClear>>

Next ==
    \/ \E h \in Threads(clients), req \in Requests(clients) : Request(h, req)
    \/ \E h \in Threads(clients) : Lookup(h)
    \/ \E h \in Threads(clients) : ReadCached(h)
    \/ \E h \in Threads(clients) :
          \E answer \in Answers(clients, thread[h].to_currency) : Fetch(h, answer)
    \/ \E h \in Threads(clients) : Populate(h)
    \/ \E h \in Threads(clients) : Convert(h)
    \/ \E h \in Threads(clients) : Finish(h)
    \/ ClearCache
    \/ ClearRespond
    \/ HealthStatus
    \/ HealthRespond
    \/ AdminFinish
    \/ Tick

\* ordinary traffic: valid requests for one pair, two concurrent threads
Spec == Init /\ [][Next]_vars

\* valid requests for two pairs, two concurrent threads
SpecPairs == InitPairs /\ [][Next]_vars

\* bad parameters and every kind of provider failure
SpecFaults == InitFaults /\ [][Next]_vars

\* the conversion arithmetic over many amounts and rates
SpecAmounts == InitAmounts /\ [][Next]_vars

\* currency codes that are not validated
SpecCodes == InitCodes /\ [][Next]_vars

(***************************************************************************)
(* Properties                                                              *)
(***************************************************************************)
Key(t) == CacheKey(t.from_currency, t.to_currency)

\* the call read an entry at line 74 and the entry was within the window
ReadFresh(t) ==
    /\ t.cached_data # NoRate
    /\ t.current_time - t.cached_data.timestamp < FreshnessWindow

\* the call read an entry at line 74 and the entry was 3600 s old or older
ReadStale(t) ==
    /\ t.cached_data # NoRate
    /\ t.current_time - t.cached_data.timestamp >= FreshnessWindow

Done(t) == t.pc = "responded" /\ t.result.status = 200

PositiveRate(r) == r.kind = "num" /\ r.sign = 0 /\ ~IsZeroDigits(r.coef)

\* C1 (as amended): a call that reads from the cache an entry with
\* current_time - timestamp < 3600 returns the stored rate and makes no
\* provider request; no call makes more than one.
C1_FreshHitSkipsProvider ==
    \A h \in AllThreads :
        /\ ReadFresh(thread[h]) =>
              /\ thread[h].calls = 0
              /\ thread[h].rate = thread[h].cached_data.rate
              /\ thread[h].pc \in {"converting", "responded"}
        /\ thread[h].calls <= 1

\* C1: a call was answered from an entry 3599 s old, without a provider request
C1_Witness ==
    \E h \in AllThreads :
        /\ Done(thread[h])
        /\ thread[h].cached_data # NoRate
        /\ thread[h].current_time - thread[h].cached_data.timestamp
              = FreshnessWindow - 1
        /\ thread[h].calls = 0
        /\ thread[h].result.conversion.rate = thread[h].cached_data.rate

\* C1 (as stated): a fresh hit returns the stored rate without a provider
\* request, and while the cache holds an entry for a pair that is less than
\* 3600 s old, no provider request is made for that pair.
C1_NoProviderCallWithinWindow ==
    /\ [](\A h \in AllThreads :
            ReadFresh(thread[h]) =>
                /\ thread[h].calls = 0
                /\ thread[h].rate = thread[h].cached_data.rate)
    /\ [][\A h \in AllThreads :
            thread'[h].calls > thread[h].calls =>
                ~(/\ Key(thread[h]) \in DOMAIN exchange_cache
                  /\ now - exchange_cache[Key(thread[h])].timestamp
                        < FreshnessWindow)]_vars

\* C2: a call that finds its pair's entry 3600 s old or older makes exactly
\* one provider request, and when the request succeeds its store replaces
\* the entry by the fetched rate with the call's own, later, clock reading
\* and leaves every other entry as it was.
C2_StaleEntryRefetchedOnce ==
    /\ [](\A h \in AllThreads :
            ReadStale(thread[h]) =>
                \/ thread[h].pc = "fetching" /\ thread[h].calls = 0
                \/ /\ thread[h].pc \in {"populate", "converting", "responded"}
                   /\ thread[h].calls = 1)
    /\ [][\A h \in AllThreads :
            (/\ ReadStale(thread[h])
             /\ thread[h].pc = "populate"
             /\ thread'[h].pc # "populate") =>
                /\ DOMAIN exchange_cache' = DOMAIN exchange_cache \cup {Key(thread[h])}
                /\ exchange_cache'[Key(thread[h])] =
                      [rate |-> FetchOutcome(thread[h].answer, thread[h].to_currency),
                       timestamp |-> thread[h].current_time]
                /\ exchange_cache'[Key(thread[h])].timestamp >
                      thread[h].cached_data.timestamp
                /\ \A k \in DOMAIN exchange_cache :
                      k # Key(thread[h]) => exchange_cache'[k] = exchange_cache[k]
          ]_vars

\* C2: a call found a stale entry, fetched a different rate and stored it,
\* while the cache also holds another pair's entry
C2_Witness ==
    \E h \in AllThreads :
        /\ ReadStale(thread[h])
        /\ thread[h].pc = "converting"
        /\ thread[h].wrote
        /\ thread[h].rate # thread[h].cached_data.rate
        /\ Key(thread[h]) \in DOMAIN exchange_cache
        /\ exchange_cache[Key(thread[h])] =
              [rate |-> thread[h].rate, timestamp |-> thread[h].current_time]
        /\ \E k \in DOMAIN exchange_cache : k # Key(thread[h])

\* a provider answer that is a failure in the words of C3: no answer, a
\* non-success status, or no well-formed numeric rates[to] in the body
FetchFailed(answer, to) ==
    \/ answer.net = "failed"
    \/ answer.status >= 400
    \/ answer.body.type # "object"
    \/ ~answer.body.has_rates
    \/ answer.body.rates.type # "object"
    \/ to \notin DOMAIN answer.body.rates.map
    \/ answer.body.rates.map[to].type # "number"

\* C3: a call whose provider fetch failed ends with the 400 "rate
\* unavailable" response, has stored nothing in the cache and has not
\* incremented the conversion counter.
C3_FetchFailureIsUpstreamError ==
    \A h \in AllThreads :
        (/\ thread[h].pc = "responded"
         /\ thread[h].calls > 0
         /\ FetchFailed(thread[h].answer, thread[h].to_currency)) =>
            /\ thread[h].result = RateUnavailable
            /\ ~thread[h].wrote
            /\ thread[h].counted = 0

\* amount * rate computed exactly, then rounded half-up to two decimals
ExactHalfUp(amount, rate) ==
    Rescale(Num((amount.sign + rate.sign) % 2,
                MulDigits(amount.coef, rate.coef), amount.exp + rate.exp),
            0 - 2, "ROUND_HALF_UP")

\* C4: the converted amount a /convert call returns is amount * rate rounded
\* half-up to exactly two fractional digits.
C4_ConvertedIsHalfUpOfProduct ==
    \A h \in AllThreads :
        (Done(thread[h]) /\ thread[h].rate.kind = "num") =>
            thread[h].result.conversion.converted_amount =
                ExactHalfUp(thread[h].amount, thread[h].rate)

\* the request's parameters are bad in the words of C5
MissingParam(t) == t.from_arg = <<>> \/ t.to_arg = <<>> \/ t.amount_arg = <<>>

Unparseable(t) == Raised(ParseDecimal(t.amount_arg))

NotAboveZeroValue(a) ==
    \/ a.kind = "num" /\ (IsZeroDigits(a.coef) \/ a.sign = 1)
    \/ a.kind = "inf" /\ a.sign = 1

NotAboveZero(t) == NotAboveZeroValue(ParseDecimal(t.amount_arg))

\* C5: a request with a missing parameter gets the 400 response that lists
\* the required parameters, one whose amount does not parse gets a 400, one
\* whose amount is <= 0 gets the 400 "amount must be positive"; none of them
\* reads the cache, calls the provider, stores a rate or increments the
\* conversion counter.
C5_InvalidRequestHasNoEffect ==
    \A h \in AllThreads :
        LET t == thread[h]
        IN  (t.pc # "idle" /\ (MissingParam(t) \/ Unparseable(t) \/ NotAboveZero(t))) =>
                /\ t.pc = "responded"
                /\ t.result.status = 400
                /\ MissingParam(t) => t.result = MissingParams
                /\ (~MissingParam(t) /\ NotAboveZero(t)) => t.result = NotPositive
                /\ t.calls = 0 /\ ~t.wrote /\ t.counted = 0
                /\ t.cached_data = NoRate /\ t.rate = NoRate

\* C5: amount=-5 was refused while the cache held an entry
C5_Witness ==
    \E h \in AllThreads :
        /\ thread[h].pc = "responded"
        /\ thread[h].amount_arg = <<"-", "5">>
        /\ thread[h].result = NotPositive
        /\ thread[h].calls = 0
        /\ DOMAIN exchange_cache # {}

\* C6: every cache entry is, whole, what one call stored: the rate the
\* provider returned to that call with that call's clock reading, under that
\* call's pair; a pair has no entry under another key; and a call that
\* fetched and reached Done was given the rate the provider returned to it.
C6_EntryIsOneCallsFetch ==
    /\ \A k \in DOMAIN exchange_cache :
          /\ k \in DOMAIN origin
          /\ k = CacheKey(origin[k].from, origin[k].to)
          /\ exchange_cache[k] =
                [rate |-> origin[k].rate, timestamp |-> origin[k].time]
          /\ \E r \in Requests(clients) : k = CacheKey(Upper(r.from), Upper(r.to))
    /\ \A h \in AllThreads :
          (Done(thread[h]) /\ thread[h].calls = 1) =>
              thread[h].result.conversion.rate =
                  FetchOutcome(thread[h].answer, thread[h].to_currency)

\* C6: two calls for the same pair both missed, were given different rates,
\* both stored and both finished; the cache holds the pair's one entry
C6_Witness ==
    /\ \A h \in {"t1", "t2"} :
          Done(thread[h]) /\ thread[h].calls = 1 /\ thread[h].wrote
    /\ Key(thread["t1"]) = Key(thread["t2"])
    /\ thread["t1"].rate # thread["t2"].rate
    /\ DOMAIN exchange_cache = {Key(thread["t1"])}
    /\ \E h \in {"t1", "t2"} :
          exchange_cache[Key(thread[h])] =
              [rate |-> thread[h].rate, timestamp |-> thread[h].current_time]

\* C7: every rate in the cache, and every rate a call converts with, is
\* strictly positive.
C7_RatesArePositive ==
    /\ \A k \in DOMAIN exchange_cache : PositiveRate(exchange_cache[k].rate)
    /\ \A h \in AllThreads :
          thread[h].pc = "converting" \/ Done(thread[h]) =>
              PositiveRate(thread[h].rate)

\* C8: the cache_size 0 of the /cache/clear response is the number of
\* entries the cache holds as the response is built; with no store since
\* the clear, /health reports size 0 and status "empty" and the cache is
\* empty, so that the next /convert misses.
C8_ClearReportsActualSize ==
    /\ admin.pc = "clear_responded" => admin.resp.cache_size = admin.resp.entries
    /\ (admin.pc = "health_responded" /\ admin.resp.clean) =>
          admin.resp.size = 0 /\ admin.resp.status = "empty"
    /\ cleanSinceClear => DOMAIN exchange_cache = {}

\* the terminal state of the call's state machine that a response stands for
Terminal(result) ==
    CASE result.status = 200 -> "Done"
      [] result.status = 400 /\ result = RateUnavailable -> "UpstreamError"
      [] result.status = 400 -> "Invalid"
      [] OTHER -> "UnhandledInternal"

\* C9: every /convert call ends in Invalid, UpstreamError or Done; Done is
\* reached by a fresh cache hit or by a fetch followed by a store; the
\* conversion counter is incremented once on reaching Done, never otherwise.
C9_ConvertEndsInStatedTerminal ==
    \A h \in AllThreads :
        LET t == thread[h]
        IN  /\ t.pc = "responded" =>
                  /\ Terminal(t.result) \in {"Invalid", "UpstreamError", "Done"}
                  /\ Terminal(t.result) = "Done" =>
                        /\ t.counted = 1
                        /\ \/ ReadFresh(t) /\ t.calls = 0
                           \/ t.calls = 1 /\ t.wrote
                  /\ Terminal(t.result) # "Done" => t.counted = 0
            /\ t.pc # "responded" => t.counted = 0

\* C10: a cache hit returns a rate that was fetched for the request's own
\* uppercased (from, to) pair.
C10_HitIsForSamePair ==
    [][\A h \in AllThreads :
          (thread[h].pc = "read" /\ thread'[h].pc = "converting") =>
              /\ origin[Key(thread[h])].from = thread[h].from_currency
              /\ origin[Key(thread[h])].to = thread[h].to_currency]_vars

====
